---------------------------- MODULE Spec2Model ----------------------------
(***************************************************************************)
(* A model of the snap/vyse bytecode virtual machine (lang/src/vm.cpp):    *)
(* the value stack, the call frames, the open-upvalue chain, the heap      *)
(* objects and the dispatch loop VM::run, one action per opcode.           *)
(*                                                                         *)
(* The bytes of the code block are the inputs of the machine: each step    *)
(* draws the opcode at ip and its inline operands from small sets, and ip  *)
(* advances by the number of bytes the handler fetches.                    *)
(***************************************************************************)
EXTENDS Integers, Sequences, FiniteSets, TLC

\* ------------------------------------------------------------------ bounds
\* Number of slots of m_stack that the model keeps.
StackMax == 6
\* Size of the m_frames array (a fixed compile-time constant in the program).
MaxFrames == 2
\* Opcodes executed in one run of the call/closure specification (VM::init
\* counts as one).
MaxSteps == 5
\* Opcodes executed in one run of the upvalue specification.
MaxUpvalSteps == 8
\* Opcodes executed in one run of the specification of the whole opcode set.
MaxOps == 5
\* Largest argc operand of call_func that is drawn.
MaxArgc == 2
MaxStrLen == 2
MaxStringSteps == 5
MaxGCSteps == 5
MaxRootSteps == 5

\* ------------------------------------------------------------------ values
\* struct Value: a tag and a payload.
Nil == [t |-> "nil", v |-> 0]
Num(n) == [t |-> "num", v |-> n]
Bool(b) == [t |-> "bool", v |-> IF b THEN 1 ELSE 0]
Object(o) == [t |-> "obj", v |-> o]

SNAP_IS_NUM(x) == x.t = "num"
SNAP_IS_BOOL(x) == x.t = "bool"
SNAP_IS_NIL(x) == x.t = "nil"
SNAP_IS_OBJECT(x) == x.t = "obj"

\* A falsiness test that takes the number 0 for false as well.
IS_VAL_FALSY_or_zero(x) ==
  (SNAP_IS_BOOL(x) /\ x.v = 0) \/ SNAP_IS_NIL(x) \/ (SNAP_IS_NUM(x) /\ x.v = 0)

IS_VAL_FALSY(x) == (SNAP_IS_BOOL(x) /\ x.v = 0) \/ SNAP_IS_NIL(x)
IS_VAL_TRUTHY(x) == ~IS_VAL_FALSY(x)

\* m_value of a closed upvalue: it targets its own `closed` cell, not a slot.
Closed == -1
\* A null Obj* / Upvalue* / CallFrame func.
Null == 0

\* The prototypes the compiler produced: parameter and upvalue counts.
\* Prototype 1 is the top-level script.
ProtoTable ==
  << [num_params |-> 0, num_upvals |-> 0],
     [num_params |-> 0, num_upvals |-> 1],
     [num_params |-> 1, num_upvals |-> 2],
     [num_params |-> 2, num_upvals |-> 0] >>

NumProtos == Len(ProtoTable)

VARIABLES
  status,          \* "New", "Running", "Success", "RuntimeError", "Undefined"
  heap,            \* the objects made by make<T>, by address (index)
  m_stack,         \* Value m_stack[StackMax]
  sp,              \* index of the first free slot
  m_frames,        \* CallFrame m_frames[MaxFrames], plus the cell past its end
  m_frame_count,
  m_current_frame, \* index into m_frames
  m_current_block, \* prototype whose block is executing
  ip,
  m_open_upvals,   \* head of the open-upvalue chain (an Upvalue*) or Null
  interned_strings, \* the String objects that are keys of the intern table
  return_value,
  errors,          \* number of calls of the on_error callback
  error_msg,       \* the message of the last call
  fuel,            \* opcodes the run may still fetch (bounds the run)
  call_sites,      \* ip of the call_func opcode that made each frame above 0
  marked,          \* the objects whose Obj::marked is true
  m_gray_objects,  \* the gray worklist of the collector
  m_extra_roots,   \* the objects protected by gc_protect
  allocs,          \* the make<T> calls of the last step: what the caller still
                   \* holds, and what the roots reach, at each call
  prev             \* the opcode executed last, its operands and the state before it

vars == << status, heap, m_stack, sp, m_frames, m_frame_count, m_current_frame,
           m_current_block, ip, m_open_upvals, interned_strings, return_value,
           errors, error_msg, fuel, call_sites, marked, m_gray_objects,
           m_extra_roots, allocs, prev >>

\* The machine state an opcode starts from, kept in prev.s.
Snapshot ==
  [ heap |-> heap, m_stack |-> m_stack, sp |-> sp, m_frames |-> m_frames,
    m_frame_count |-> m_frame_count, m_current_frame |-> m_current_frame,
    m_current_block |-> m_current_block, ip |-> ip,
    m_open_upvals |-> m_open_upvals, errors |-> errors, status |-> status,
    call_sites |-> call_sites, interned_strings |-> interned_strings,
    marked |-> marked, m_gray_objects |-> m_gray_objects,
    m_extra_roots |-> m_extra_roots ]

EmptyFrame == [func |-> Null, base |-> 0, ip |-> 0]

InitVM(steps) ==
  /\ status = "New"
  /\ heap = << >>
  /\ m_stack = [i \in 0..(StackMax - 1) |-> Nil]
  /\ sp = 0
  /\ m_frames = [i \in 0..MaxFrames |-> EmptyFrame]
  /\ m_frame_count = 0
  /\ m_current_frame = 0
  /\ m_current_block = Null
  /\ ip = 0
  /\ m_open_upvals = Null
  /\ interned_strings = {}
  /\ return_value = Nil
  /\ errors = 0
  /\ error_msg = ""
  /\ fuel = steps
  /\ call_sites = << >>
  /\ marked = {}
  /\ m_gray_objects = << >>
  /\ m_extra_roots = {}
  /\ allocs = << >>
  /\ prev = [op |-> "none", args |-> << >>, s |-> << >>]


\* ---------------------------------------------------------------- helpers
Running == status = "Running" /\ m_frame_count <= MaxFrames /\ fuel > 0

\* m_current_frame->base and m_current_frame->func
CurBase == m_frames[m_current_frame].base
CurFunc == m_frames[m_current_frame].func

\* Every opcode fetched counts one step and leaves its start state in prev.
Fetched(op, args) ==
  /\ fuel' = fuel - 1
  /\ prev' = [op |-> op, args |-> args, s |-> Snapshot]

\* The step leaves the collector's state alone.
SameGC == UNCHANGED << marked, m_gray_objects, m_extra_roots >>

\* The step calls no make<T>.
NoAlloc == allocs' = << >>

\* push(v): *(sp++) = v
PushOn(stk, p, x) == [stk EXCEPT ![p] = x]

\* make<T>(...): the new object gets the next free address.
NewId(h) == Len(h) + 1

\* ---------------------------------------------------------------- upvalues
\* The loop of capture_upvalue: advance while the node's slot is below `slot`.
RECURSIVE WalkChain(_, _, _, _)
WalkChain(h, prv, current, slot) ==
  IF current # Null /\ h[current].m_value < slot
  THEN WalkChain(h, current, h[current].next_upval, slot)
  ELSE << prv, current >>

\* A capture_upvalue that never reuses the upvalue already open on the slot.
capture_upvalue_no_reuse(h, head, slot) ==
  LET w       == WalkChain(h, Null, head, slot)
      prv     == w[1]
      current == w[2]
      upval   == NewId(h)
      h1      == Append(h, [tag |-> "upvalue", m_value |-> slot,
                            closed |-> Nil, next_upval |-> current])
  IN IF prv = Null
     THEN [heap |-> h1, open |-> upval, uv |-> upval]
     ELSE [heap |-> [h1 EXCEPT ![prv].next_upval = upval],
           open |-> head, uv |-> upval]

\* A capture_upvalue that links every new upvalue at the head of the chain.
capture_upvalue_at_head(h, head, slot) ==
  LET w       == WalkChain(h, Null, head, slot)
      current == w[2]
  IN IF current # Null /\ h[current].m_value = slot
     THEN [heap |-> h, open |-> head, uv |-> current]
     ELSE LET upval == NewId(h)
          IN [heap |-> Append(h, [tag |-> "upvalue", m_value |-> slot,
                                  closed |-> Nil, next_upval |-> head]),
              open |-> upval, uv |-> upval]

\* capture_upvalue(slot) on heap h with chain head `head`:
\* the heap and the head afterwards, and the upvalue returned.
capture_upvalue(h, head, slot) ==
  LET w       == WalkChain(h, Null, head, slot)
      prv     == w[1]
      current == w[2]
  IN IF current # Null /\ h[current].m_value = slot
     THEN [heap |-> h, open |-> head, uv |-> current]
     ELSE LET upval == NewId(h)
              h1 == Append(h, [tag |-> "upvalue", m_value |-> slot,
                               closed |-> Nil, next_upval |-> current])
          IN IF prv = Null
             THEN [heap |-> h1, open |-> upval, uv |-> upval]
             ELSE [heap |-> [h1 EXCEPT ![prv].next_upval = upval],
                   open |-> head, uv |-> upval]

\* A close_upvalues_upto that closes the upvalues and leaves them in the chain.
RECURSIVE close_upvalues_upto_not_unlinked(_, _, _, _)
close_upvalues_upto_not_unlinked(h, head, stk, last) ==
  IF head # Null /\ h[head].m_value >= last
  THEN [ close_upvalues_upto_not_unlinked(
           [h EXCEPT ![head].closed = stk[h[head].m_value],
                     ![head].m_value = Closed],
           h[head].next_upval, stk, last)
         EXCEPT !.open = head ]
  ELSE [heap |-> h, open |-> head]

\* close_upvalues_upto(last): pops from the head of the chain while the head's
\* slot is at or above `last`.
RECURSIVE close_upvalues_upto(_, _, _, _)
close_upvalues_upto(h, head, stk, last) ==
  IF head # Null /\ h[head].m_value >= last
  THEN close_upvalues_upto(
         [h EXCEPT ![head].closed = stk[h[head].m_value],
                   ![head].m_value = Closed],
         h[head].next_upval, stk, last)
  ELSE [heap |-> h, open |-> head]

\* A read through an upvalue that always takes its `closed` cell.
Deref_closed_cell(h, stk, uv) == h[uv].closed

\* *uv->m_value
Deref(h, stk, uv) ==
  IF h[uv].m_value = Closed THEN h[uv].closed ELSE stk[h[uv].m_value]

\* The upvalues of the open chain, head first.
RECURSIVE ChainFrom(_, _)
ChainFrom(h, u) == IF u = Null THEN << >> ELSE << u >> \o ChainFrom(h, h[u].next_upval)

OpenChain == ChainFrom(heap, m_open_upvals)

\* ------------------------------------------------------------------- calls
\* The nils pushed for missing arguments.
RECURSIVE PushNils(_, _, _)
PushNils(stk, p, n) ==
  IF n = 0 THEN stk ELSE PushNils(PushOn(stk, p, Nil), p + 1, n - 1)

\* A callfunc that does not save the caller's instruction pointer.
callfunc_ip_not_saved(h, stk, p, frs, fc, cur, cip, func, argc) ==
  LET want  == h[h[func].m_proto].num_params
      extra == argc - want
      stk1  == IF extra < 0 THEN PushNils(stk, p, -extra) ELSE stk
      p1    == p - extra
      new   == fc
  IN [ m_stack |-> stk1, sp |-> p1,
       m_frames |-> [frs EXCEPT ![new].func = func, ![new].base = p1 - want - 1],
       m_frame_count |-> fc + 1,
       m_current_frame |-> new,
       ip |-> 0,
       m_current_block |-> h[func].m_proto ]

\* A callfunc that computes base from the argc it was given, not the adjusted one.
callfunc_stale_argc(h, stk, p, frs, fc, cur, cip, func, argc) ==
  LET want  == h[h[func].m_proto].num_params
      extra == argc - want
      stk1  == IF extra < 0 THEN PushNils(stk, p, -extra) ELSE stk
      p1    == p - extra
      frs1  == [frs EXCEPT ![cur].ip = cip]
      new   == fc
  IN [ m_stack |-> stk1, sp |-> p1,
       m_frames |-> [frs1 EXCEPT ![new].func = func, ![new].base = p1 - argc - 1],
       m_frame_count |-> fc + 1,
       m_current_frame |-> new,
       ip |-> 0,
       m_current_block |-> h[func].m_proto ]

\* callfunc(func, argc) from stack stk/p, frames frs, frame count fc, current
\* frame cur and instruction pointer cip: the state it leaves.
callfunc(h, stk, p, frs, fc, cur, cip, func, argc) ==
  LET want  == h[h[func].m_proto].num_params
      extra == argc - want
      stk1  == IF extra < 0 THEN PushNils(stk, p, -extra) ELSE stk
      p1    == p - extra
      frs1  == [frs EXCEPT ![cur].ip = cip]
      new   == fc
  IN [ m_stack |-> stk1, sp |-> p1,
       m_frames |-> [frs1 EXCEPT ![new].func = func, ![new].base = p1 - want - 1],
       m_frame_count |-> fc + 1,
       m_current_frame |-> new,
       ip |-> 0,
       m_current_block |-> h[func].m_proto ]

\* ----------------------------------------------------------------- strings
\* Table::find_string on the intern table: the String with these bytes, or null.
find_string(h, pool, chars) ==
  IF \E o \in pool : h[o].chars = chars
  THEN CHOOSE o \in pool : h[o].chars = chars
  ELSE Null

\* A VM::string that allocates without probing the intern table.
string_no_probe(h, pool, chars) ==
  [heap |-> Append(h, [tag |-> "string", chars |-> chars]),
   pool |-> pool \cup {NewId(h)}, str |-> NewId(h)]

\* VM::string(chars, length): the interned String for the bytes.
string(h, pool, chars) ==
  LET interned == find_string(h, pool, chars)
  IN IF interned # Null
     THEN [heap |-> h, pool |-> pool, str |-> interned]
     ELSE [heap |-> Append(h, [tag |-> "string", chars |-> chars]),
           pool |-> pool \cup {NewId(h)}, str |-> NewId(h)]

\* The string literals of the compiled program.
StrConsts == << << "a" >>, << "b" >>, << "a", "b" >> >>

\* The objects the compiler put in constant pools: prototypes and literals.
NumConsts == NumProtos + Len(StrConsts)

RECURSIVE InternAll(_, _, _, _)
InternAll(h, pool, strs, i) ==
  IF i > Len(strs) THEN [heap |-> h, pool |-> pool]
  ELSE LET r == string(h, pool, strs[i])
       IN InternAll(r.heap, r.pool, strs, i + 1)

\* ---------------------------------------------------------------- collector
\* A gc_protect that protects nothing.
gc_protect_nothing(roots, o) == roots

\* A gc_protect that drops an object protected before.
gc_protect_toggles(roots, o) == IF o \in roots THEN roots \ {o} ELSE roots \cup {o}

\* VM::gc_protect(o) and VM::gc_unprotect(o) on the extra-roots set.
gc_protect(roots, o) == roots \cup {o}
gc_unprotect(roots, o) == roots \ {o}

\* GC::mark(Obj* o): mark an object and colour it gray, once.
mark_object(g, o) ==
  IF o = Null \/ o \in g.marked THEN g
  ELSE [marked |-> g.marked \cup {o}, gray |-> Append(g.gray, o)]

\* GC::mark(Value v)
mark_value(g, v) == IF SNAP_IS_OBJECT(v) THEN mark_object(g, v.v) ELSE g

\* The first loop of VM::mark: m_gc.mark(v) with v a Value*. No overload takes
\* a Value*; the pointer converts to bool and the call is mark(Value(true)).
RECURSIVE MarkStack(_, _, _)
MarkStack(g, v, top) ==
  IF v >= top THEN g ELSE MarkStack(mark_value(g, Bool(TRUE)), v + 1, top)

\* The second loop: for (frame = m_frames; frame < m_current_frame; ++frame).
RECURSIVE MarkFrames(_, _, _, _)
MarkFrames(g, frs, frame, cur) ==
  IF frame >= cur THEN g
  ELSE MarkFrames(mark_object(g, frs[frame].func), frs, frame + 1, cur)

\* The third loop: the open-upvalue chain.
RECURSIVE MarkChain(_, _, _)
MarkChain(g, h, uv) ==
  IF uv = Null THEN g ELSE MarkChain(mark_object(g, uv), h, h[uv].next_upval)

\* The fourth loop: the extra roots, in the order of the std::set.
RECURSIVE MarkRoots(_, _)
MarkRoots(g, roots) ==
  IF roots = {} THEN g
  ELSE LET o == CHOOSE x \in roots : \A y \in roots : x <= y
       IN MarkRoots(mark_object(g, o), roots \ {o})

\* VM::mark()
mark(g, h, p, frs, cur, head, roots) ==
  MarkRoots(MarkChain(MarkFrames(MarkStack(g, 0, p), frs, 0, cur), h, head), roots)

\* The objects a value refers to.
ValueRefs(x) == IF SNAP_IS_OBJECT(x) THEN { x.v } ELSE {}

\* The objects an object refers to: what its trace enumerates.
Refs(h, stk, o) ==
  CASE h[o].tag = "func" ->
         { h[o].m_proto } \cup ({ h[o].upvals[i] : i \in DOMAIN h[o].upvals } \ { Null })
    [] h[o].tag = "upvalue" ->
         IF h[o].m_value = Closed THEN ValueRefs(h[o].closed)
         ELSE ValueRefs(stk[h[o].m_value])
    [] h[o].tag = "table" ->
         UNION { ValueRefs(k) \cup ValueRefs(h[o].entries[k]) : k \in DOMAIN h[o].entries }
    [] h[o].tag = "proto" ->
         \* the constant pool: READ_VALUE reads the constants of the block
         { c \in 1..Len(h) : h[c].tag = "proto" \/ (h[c].tag = "string" /\ c <= NumConsts) }
    [] OTHER -> {}

\* The objects reachable from a set of objects.
RECURSIVE Reach(_, _, _, _)
Reach(h, stk, seen, frontier) ==
  IF frontier = {} THEN seen
  ELSE LET next == UNION { Refs(h, stk, o) : o \in frontier }
       IN Reach(h, stk, seen \cup frontier, next \ (seen \cup frontier))

\* The roots of the running code: the values of the stack below sp, the
\* closures of the call frames, the open-upvalue chain and the extra roots.
RootSet(h, stk, p, frs, fc, head, roots) ==
  UNION { ValueRefs(stk[i]) : i \in 0..(p - 1) }
    \cup { frs[i].func : i \in 0..(fc - 1) }
    \cup { ChainFrom(h, head)[i] : i \in DOMAIN ChainFrom(h, head) }
    \cup roots

\* One make<T> call: the objects the caller goes on to use, and the objects
\* the roots reach when the call is made.
AllocSite(site, held, h, stk, p, frs, fc, head, roots) ==
  [ site |-> site, held |-> held,
    on_stack |-> UNION { ValueRefs(stk[i]) : i \in 0..(p - 1) },
    extra |-> roots,
    rooted |-> Reach(h, stk, {}, RootSet(h, stk, p, frs, fc, head, roots)) ]

\* The native closure the host registers before the program runs.
NativeFn == NumProtos + Len(StrConsts) + 1

\* VM::init: compile, wrap the top-level prototype in a closure, push it and
\* call it with no arguments. The heap already holds the host's native closure.
\* make<Function> may start a collection (collect) before it allocates.
VMInitWith(collect) ==
  /\ status = "New" /\ fuel > 0
  /\ LET protos == [i \in 1..NumProtos |->
                      [tag |-> "proto", num_params |-> ProtoTable[i].num_params,
                       num_upvals |-> ProtoTable[i].num_upvals]]
         compiled == InternAll(protos, {}, StrConsts, 1)
         stdlib == Append(compiled.heap, [tag |-> "c_closure"])
         func   == NewId(stdlib)
         h1     == Append(stdlib,
                          [tag |-> "func", m_proto |-> 1, upvals |-> << >>])
         c      == callfunc(h1, PushOn(m_stack, sp, Object(func)), sp + 1, m_frames,
                            m_frame_count, m_current_frame, ip, func, 0)
         \* gc_protect(proto); make<Function>(proto, 0); gc_unprotect(proto)
         roots  == gc_protect(m_extra_roots, 1)
         g      == mark([marked |-> marked, gray |-> m_gray_objects], stdlib, sp,
                        m_frames, m_current_frame, m_open_upvals, roots)
     IN /\ heap' = h1
        /\ allocs' = << AllocSite("init", { 1 }, stdlib, m_stack, sp, m_frames,
                                  m_frame_count, m_open_upvals, roots) >>
        /\ marked' = IF collect THEN g.marked ELSE marked
        /\ m_gray_objects' = IF collect THEN g.gray ELSE m_gray_objects
        /\ m_extra_roots' = gc_unprotect(roots, 1)
        /\ interned_strings' = compiled.pool
        /\ m_stack' = c.m_stack
        /\ sp' = c.sp
        /\ m_frames' = c.m_frames
        /\ m_frame_count' = c.m_frame_count
        /\ m_current_frame' = c.m_current_frame
        /\ ip' = c.ip
        /\ m_current_block' = c.m_current_block
  /\ status' = "Running"
  /\ Fetched("init", << collect >>)
  /\ UNCHANGED << m_open_upvals, return_value, errors, error_msg, call_sites >>

\* VM::init when its make<Function> starts no collection.
VMInit == VMInitWith(FALSE)

\* ------------------------------------------------------------------ errors
\* runtime_error(message): formats the message, calls on_error once and
\* hands ExitCode::RuntimeError to its caller.
runtime_error(message) ==
  /\ errors' = errors + 1
  /\ error_msg' = message

NoError == UNCHANGED << errors, error_msg >>
SameSites == UNCHANGED call_sites
SamePool == UNCHANGED interned_strings

\* n operands lie above the slot of the executing closure.
HasOperands(n) == sp - n > CurBase

\* The locals of the current frame: base[1] .. base[sp - base - 1].
LocalIdx == 1..(sp - CurBase - 1)

TypeName(x) ==
  IF x.t = "obj" THEN heap[x.v].tag ELSE x.t

\* ------------------------------------------------------- opcodes: stack, vars

\* case Op::load_const: push(READ_VALUE())
OpLoadConst(k) ==
  /\ Running /\ sp < StackMax
  /\ m_stack' = PushOn(m_stack, sp, k)
  /\ sp' = sp + 1
  /\ ip' = ip + 2
  /\ Fetched("load_const", << k >>)
  /\ SameGC /\ NoAlloc
  /\ NoError /\ SameSites /\ SamePool
  /\ UNCHANGED << status, heap, m_frames, m_frame_count, m_current_frame,
                  m_current_block, m_open_upvals, return_value >>

\* case Op::load_nil: push(SNAP_NIL_VAL)
OpLoadNil ==
  /\ Running /\ sp < StackMax
  /\ m_stack' = PushOn(m_stack, sp, Nil)
  /\ sp' = sp + 1
  /\ ip' = ip + 1
  /\ Fetched("load_nil", << >>)
  /\ SameGC /\ NoAlloc
  /\ NoError /\ SameSites /\ SamePool
  /\ UNCHANGED << status, heap, m_frames, m_frame_count, m_current_frame,
                  m_current_block, m_open_upvals, return_value >>

\* case Op::pop: pop()
OpPop ==
  /\ Running /\ HasOperands(1)
  /\ sp' = sp - 1
  /\ ip' = ip + 1
  /\ Fetched("pop", << >>)
  /\ SameGC /\ NoAlloc
  /\ NoError /\ SameSites /\ SamePool
  /\ UNCHANGED << status, heap, m_stack, m_frames, m_frame_count, m_current_frame,
                  m_current_block, m_open_upvals, return_value >>

\* case Op::get_var: push(GET_VAR(idx))
OpGetVar(idx) ==
  /\ Running /\ sp < StackMax /\ idx \in LocalIdx
  /\ m_stack' = PushOn(m_stack, sp, m_stack[CurBase + idx])
  /\ sp' = sp + 1
  /\ ip' = ip + 2
  /\ Fetched("get_var", << idx >>)
  /\ SameGC /\ NoAlloc
  /\ NoError /\ SameSites /\ SamePool
  /\ UNCHANGED << status, heap, m_frames, m_frame_count, m_current_frame,
                  m_current_block, m_open_upvals, return_value >>

\* case Op::set_var: SET_VAR(idx, peek(0))
OpSetVar(idx) ==
  /\ Running /\ HasOperands(1) /\ idx \in LocalIdx
  /\ m_stack' = [m_stack EXCEPT ![CurBase + idx] = m_stack[sp - 1]]
  /\ ip' = ip + 2
  /\ Fetched("set_var", << idx >>)
  /\ SameGC /\ NoAlloc
  /\ NoError /\ SameSites /\ SamePool
  /\ UNCHANGED << status, heap, sp, m_frames, m_frame_count, m_current_frame,
                  m_current_block, m_open_upvals, return_value >>

\* The upvalue indices of the executing closure.
UpvalIdx ==
  IF CurFunc = Null THEN {} ELSE 0..(Len(heap[CurFunc].upvals) - 1)

\* m_current_frame->func->get_upval(idx)
get_upval(idx) == heap[CurFunc].upvals[idx + 1]

\* case Op::set_upval: *get_upval(idx)->m_value = PEEK(1)
OpSetUpval(idx) ==
  /\ Running /\ HasOperands(1) /\ idx \in UpvalIdx
  /\ LET uv == get_upval(idx)
     IN IF heap[uv].m_value = Closed
        THEN /\ heap' = [heap EXCEPT ![uv].closed = m_stack[sp - 1]]
             /\ UNCHANGED m_stack
        ELSE /\ m_stack' = [m_stack EXCEPT ![heap[uv].m_value] = m_stack[sp - 1]]
             /\ UNCHANGED heap
  /\ ip' = ip + 2
  /\ Fetched("set_upval", << idx >>)
  /\ SameGC /\ NoAlloc
  /\ NoError /\ SameSites /\ SamePool
  /\ UNCHANGED << status, sp, m_frames, m_frame_count, m_current_frame,
                  m_current_block, m_open_upvals, return_value >>

\* case Op::get_upval: push(*get_upval(idx)->m_value)
OpGetUpval(idx) ==
  /\ Running /\ sp < StackMax /\ idx \in UpvalIdx
  /\ m_stack' = PushOn(m_stack, sp, Deref(heap, m_stack, get_upval(idx)))
  /\ sp' = sp + 1
  /\ ip' = ip + 2
  /\ Fetched("get_upval", << idx >>)
  /\ SameGC /\ NoAlloc
  /\ NoError /\ SameSites /\ SamePool
  /\ UNCHANGED << status, heap, m_frames, m_frame_count, m_current_frame,
                  m_current_block, m_open_upvals, return_value >>

\* case Op::close_upval: close_upvalues_upto(sp - 1); pop()
OpCloseUpval ==
  /\ Running /\ HasOperands(1)
  /\ LET c == close_upvalues_upto(heap, m_open_upvals, m_stack, sp - 1)
     IN /\ heap' = c.heap
        /\ m_open_upvals' = c.open
  /\ sp' = sp - 1
  /\ ip' = ip + 1
  /\ Fetched("close_upval", << >>)
  /\ SameGC /\ NoAlloc
  /\ NoError /\ SameSites /\ SamePool
  /\ UNCHANGED << status, m_stack, m_frames, m_frame_count, m_current_frame,
                  m_current_block, return_value >>

\* --------------------------------------------------- opcodes: closures, calls
\* The (is_local, index) operand pairs make_func may read in the current
\* frame; the new closure's own slot (index sp - base) can be captured too.
UpvalDescs ==
  { [is_local |-> TRUE, index |-> i] : i \in 1..(sp - CurBase) }
    \cup { [is_local |-> FALSE, index |-> j] : j \in UpvalIdx }

\* The loop of make_func over the operand pairs i..N of closure `func`.
RECURSIVE CaptureLoop(_, _, _, _, _, _, _)
CaptureLoop(h, head, func, descs, i, base, enclosing) ==
  IF i > Len(descs) THEN [heap |-> h, open |-> head]
  ELSE IF descs[i].is_local
       THEN LET c == capture_upvalue(h, head, base + descs[i].index)
            IN CaptureLoop([c.heap EXCEPT ![func].upvals[i] = c.uv], c.open,
                           func, descs, i + 1, base, enclosing)
       ELSE CaptureLoop(
              [h EXCEPT ![func].upvals[i] = h[enclosing].upvals[descs[i].index + 1]],
              head, func, descs, i + 1, base, enclosing)

\* case Op::make_func
OpMakeFunc(proto, descs) ==
  /\ Running /\ sp < StackMax
  /\ heap[proto].tag = "proto"
  /\ Len(descs) = heap[proto].num_upvals
  /\ LET func == NewId(heap)
         h1   == Append(heap, [tag |-> "func", m_proto |-> proto,
                               upvals |-> [i \in 1..Len(descs) |-> Null]])
         c    == CaptureLoop(h1, m_open_upvals, func, descs, 1, CurBase, CurFunc)
     IN /\ m_stack' = PushOn(m_stack, sp, Object(func))
        /\ heap' = c.heap
        /\ m_open_upvals' = c.open
        \* make<Function> before the push, make<Upvalue> after it
        /\ allocs' =
             << AllocSite("make_func", { proto, CurFunc }, heap, m_stack, sp, m_frames,
                          m_frame_count, m_open_upvals, m_extra_roots) >>
             \o (IF Len(c.heap) > Len(h1)
                 THEN << AllocSite("capture_upvalue", { func, CurFunc }, h1,
                                   PushOn(m_stack, sp, Object(func)), sp + 1, m_frames,
                                   m_frame_count, m_open_upvals, m_extra_roots) >>
                 ELSE << >>)
  /\ sp' = sp + 1
  /\ ip' = ip + 3 + 2 * Len(descs)
  /\ Fetched("make_func", << proto, descs >>)
  /\ SameGC
  /\ NoError /\ SameSites /\ SamePool
  /\ UNCHANGED << status, m_frames, m_frame_count, m_current_frame,
                  m_current_block, return_value >>

SNAP_IS_FUNC(x) == SNAP_IS_OBJECT(x) /\ heap[x.v].tag = "func"

\* A PEEK whose body parenthesises its argument: sp[-(depth)].
PEEK_parenthesised(stk, p, minuend, subtrahend) == stk[p - (minuend - subtrahend)]

\* #define PEEK(depth) sp[-depth], used on the argument `minuend - subtrahend`:
\* the argument is substituted as text, so the slot is sp[-minuend - subtrahend].
PEEK(stk, p, minuend, subtrahend) == stk[p + ((-minuend) - subtrahend)]

\* A call_func that counts a frame for a callee it refuses to call.
OpCallFunc_frame_on_error(argc) ==
  /\ Running /\ HasOperands(argc + 1)
  /\ ~SNAP_IS_FUNC(m_stack[sp - argc - 1])
  /\ runtime_error("Attempt to call a " \o TypeName(m_stack[sp - argc - 1]) \o " value.")
  /\ status' = "RuntimeError"
  /\ ip' = ip + 2
  /\ m_frame_count' = m_frame_count + 1
  /\ Fetched("call_func", << argc >>)
  /\ SameGC /\ NoAlloc
  /\ UNCHANGED << m_stack, sp, m_frames, m_current_frame, m_current_block,
                  call_sites, heap, m_open_upvals, interned_strings, return_value >>

\* case Op::call_func: Value value = PEEK(argc - 1); call(value, argc).
\* The macro expands to sp[-argc - 1].
OpCallFunc(argc) ==
  /\ Running /\ HasOperands(argc + 1)
  /\ LET value == PEEK(m_stack, sp, argc, 1)
     IN IF SNAP_IS_FUNC(value)
        THEN /\ sp - argc + heap[heap[value.v].m_proto].num_params <= StackMax
             /\ LET c == callfunc(heap, m_stack, sp, m_frames, m_frame_count,
                                  m_current_frame, ip + 2, value.v, argc)
                IN /\ m_stack' = c.m_stack
                   /\ sp' = c.sp
                   /\ m_frames' = c.m_frames
                   /\ m_frame_count' = c.m_frame_count
                   /\ m_current_frame' = c.m_current_frame
                   /\ ip' = c.ip
                   /\ m_current_block' = c.m_current_block
             /\ status' = IF m_frame_count >= MaxFrames THEN "Undefined" ELSE status
             /\ call_sites' = Append(call_sites, ip)
             /\ NoError
        ELSE /\ runtime_error("Attempt to call a " \o TypeName(value) \o " value.")
             /\ status' = "RuntimeError"
             /\ ip' = ip + 2
             /\ UNCHANGED << m_stack, sp, m_frames, m_frame_count, m_current_frame,
                             m_current_block, call_sites >>
  /\ Fetched("call_func", << argc >>)
  /\ SameGC /\ NoAlloc
  /\ UNCHANGED << heap, m_open_upvals, interned_strings, return_value >>

\* A return_val that goes on in the code block of the frame that returned.
OpReturnVal_block_kept ==
  /\ Running /\ HasOperands(1)
  /\ LET result == m_stack[sp - 1]
         c      == close_upvalues_upto(heap, m_open_upvals, m_stack, CurBase)
         fc     == m_frame_count - 1
     IN /\ heap' = c.heap
        /\ m_open_upvals' = c.open
        /\ m_stack' = PushOn(m_stack, CurBase, result)
        /\ sp' = CurBase + 1
        /\ m_frame_count' = fc
        /\ IF fc = 0
           THEN /\ return_value' = result
                /\ status' = "Success"
                /\ ip' = ip + 1
                /\ UNCHANGED m_current_frame
           ELSE /\ m_current_frame' = fc - 1
                /\ ip' = m_frames[fc - 1].ip
                /\ UNCHANGED << return_value, status >>
  /\ call_sites' = IF call_sites = << >> THEN call_sites
                    ELSE SubSeq(call_sites, 1, Len(call_sites) - 1)
  /\ Fetched("return_val", << >>)
  /\ SameGC /\ NoAlloc
  /\ NoError
  /\ UNCHANGED << m_frames, interned_strings, m_current_block >>

\* A return_val that forgets the result when the last frame returns.
OpReturnVal_result_dropped ==
  /\ Running /\ HasOperands(1) /\ m_frame_count = 1
  /\ LET c == close_upvalues_upto(heap, m_open_upvals, m_stack, CurBase)
     IN /\ heap' = c.heap
        /\ m_open_upvals' = c.open
  /\ m_stack' = PushOn(m_stack, CurBase, m_stack[sp - 1])
  /\ sp' = CurBase + 1
  /\ m_frame_count' = 0
  /\ return_value' = Nil
  /\ status' = "Success"
  /\ ip' = ip + 1
  /\ Fetched("return_val", << >>)
  /\ SameGC /\ NoAlloc
  /\ NoError /\ SameSites
  /\ UNCHANGED << m_frames, interned_strings, m_current_frame, m_current_block >>

\* case Op::return_val
OpReturnVal ==
  /\ Running /\ HasOperands(1)
  /\ LET result == m_stack[sp - 1]
         c      == close_upvalues_upto(heap, m_open_upvals, m_stack, CurBase)
         fc     == m_frame_count - 1
     IN /\ heap' = c.heap
        /\ m_open_upvals' = c.open
        /\ m_stack' = PushOn(m_stack, CurBase, result)
        /\ sp' = CurBase + 1
        /\ m_frame_count' = fc
        /\ IF fc = 0
           THEN /\ return_value' = result
                /\ status' = "Success"
                /\ ip' = ip + 1
                /\ UNCHANGED << m_current_frame, m_current_block >>
           ELSE /\ m_current_frame' = fc - 1
                /\ m_current_block' = heap[m_frames[fc - 1].func].m_proto
                /\ ip' = m_frames[fc - 1].ip
                /\ UNCHANGED << return_value, status >>
  /\ call_sites' = IF call_sites = << >> THEN call_sites
                    ELSE SubSeq(call_sites, 1, Len(call_sites) - 1)
  /\ Fetched("return_val", << >>)
  /\ SameGC /\ NoAlloc
  /\ NoError
  /\ UNCHANGED << m_frames, interned_strings >>

\* ------------------------------------------------- opcodes: arithmetic, logic
\* The doubles that are not finite.
PosInf == 1000001
NegInf == -1000001
NaN == 1000002
IsFinite(x) == x.v \notin {PosInf, NegInf, NaN}
Abs(n) == IF n < 0 THEN -n ELSE n

\* An opcode that neither fails nor touches anything but the stack and ip.
Plain(stk, newsp, len) ==
  /\ m_stack' = stk
  /\ sp' = newsp
  /\ ip' = ip + len
  /\ NoError /\ SameSites /\ SamePool
  /\ UNCHANGED << status, heap, m_frames, m_frame_count, m_current_frame,
                  m_current_block, m_open_upvals, return_value >>

\* return runtime_error(message): the dispatch loop ends with RuntimeError.
Fail(message, newsp, len) ==
  /\ runtime_error(message)
  /\ status' = "RuntimeError"
  /\ sp' = newsp
  /\ ip' = ip + len
  /\ SameSites /\ SamePool
  /\ UNCHANGED << m_stack, heap, m_frames, m_frame_count, m_current_frame,
                  m_current_block, m_open_upvals, return_value >>

\* binop_error(opstr, a, b)
binop_error(opstr, a, b) ==
  "Cannot use operator '" \o opstr \o "' on operands of type '"
    \o TypeName(a) \o "' and '" \o TypeName(b) \o "'."

\* #op: the spelling of the operator in an error message.
OpStr(op) ==
  CASE op = "add" -> "+" [] op = "sub" -> "-" [] op = "mult" -> "*"
    [] op = "gt" -> ">" [] op = "lt" -> "<" [] op = "gte" -> ">="
    [] op = "lte" -> "<=" [] op = "lshift" -> "<<" [] op = "rshift" -> ">>"
    [] op = "band" -> "&" [] op = "bor" -> "|"

\* b op a of BINOP(op), with b = PEEK(2) and a = PEEK(1).
ArithResult(op, b, a) ==
  CASE op = "add"  -> b + a
    [] op = "sub"  -> b - a
    [] op = "mult" -> b * a

\* BINOP(op): case Op::add, Op::sub, Op::mult
OpBinop(op) ==
  /\ Running /\ HasOperands(2)
  /\ LET a == m_stack[sp - 1]
         b == m_stack[sp - 2]
     IN IF SNAP_IS_NUM(a) /\ SNAP_IS_NUM(b)
        THEN /\ IsFinite(a) /\ IsFinite(b)
             /\ Plain([m_stack EXCEPT ![sp - 2] = Num(ArithResult(op, b.v, a.v))],
                      sp - 1, 1)
        ELSE Fail(binop_error(OpStr(op), b, a), sp, 1)
  /\ Fetched(op, << >>)
  /\ SameGC /\ NoAlloc

\* a op b of CMP_OP(op), with b popped first.
CmpResult(op, a, b) ==
  CASE op = "gt"  -> a > b
    [] op = "lt"  -> a < b
    [] op = "gte" -> a >= b
    [] op = "lte" -> a <= b

\* CMP_OP(op): case Op::gt, Op::lt, Op::gte, Op::lte
OpCmp(op) ==
  /\ Running /\ HasOperands(2)
  /\ LET b == m_stack[sp - 1]
         a == m_stack[sp - 2]
     IN IF SNAP_IS_NUM(a) /\ SNAP_IS_NUM(b)
        THEN /\ IsFinite(a) /\ IsFinite(b)
             /\ Plain([m_stack EXCEPT ![sp - 2] = Bool(CmpResult(op, a.v, b.v))],
                      sp - 1, 1)
        ELSE Fail(binop_error(OpStr(op), b, a), sp - 2, 1)
  /\ Fetched(op, << >>)
  /\ SameGC /\ NoAlloc

\* The double b / a, for a quotient that is a whole number or infinite.
Quotient(b, a) ==
  IF a = 0 THEN (IF b > 0 THEN PosInf ELSE IF b < 0 THEN NegInf ELSE NaN)
  ELSE LET q == Abs(b) \div Abs(a)
       IN IF (b < 0) = (a < 0) THEN q ELSE -q

\* The operand case Op::div compares with 0 before it divides.
DivZeroTest(a, b) == b.v = 0

\* case Op::div, with a = PEEK(1) and b = PEEK(2)
OpDiv ==
  /\ Running /\ HasOperands(2)
  /\ LET a == m_stack[sp - 1]
         b == m_stack[sp - 2]
     IN IF SNAP_IS_NUM(a) /\ SNAP_IS_NUM(b)
        THEN /\ IsFinite(a) /\ IsFinite(b)
             /\ IF a.v = 0 THEN TRUE ELSE Abs(b.v) % Abs(a.v) = 0
             /\ IF DivZeroTest(a, b)
                THEN Fail("Attempt to divide by 0.\n", sp, 1)
                ELSE Plain([m_stack EXCEPT ![sp - 2] = Num(Quotient(b.v, a.v))],
                           sp - 1, 1)
        ELSE Fail(binop_error("/", b, a), sp, 1)
  /\ Fetched("div", << >>)
  /\ SameGC /\ NoAlloc

\* fmod(b, a): the remainder has the sign of b; fmod(b, 0) is NaN.
Fmod(b, a) ==
  IF a = 0 THEN NaN
  ELSE IF b < 0 THEN -(Abs(b) % Abs(a)) ELSE b % Abs(a)

\* case Op::mod
OpMod ==
  /\ Running /\ HasOperands(2)
  /\ LET a == m_stack[sp - 1]
         b == m_stack[sp - 2]
     IN IF SNAP_IS_NUM(a) /\ SNAP_IS_NUM(b)
        THEN /\ IsFinite(a) /\ IsFinite(b)
             /\ Plain([m_stack EXCEPT ![sp - 2] = Num(Fmod(b.v, a.v))], sp - 1, 1)
        ELSE Fail(binop_error("%", b, a), sp, 1)
  /\ Fetched("mod", << >>)
  /\ SameGC /\ NoAlloc

RECURSIVE Pow2(_)
Pow2(n) == IF n = 0 THEN 1 ELSE 2 * Pow2(n - 1)

\* Bitwise and / or of two non-negative integers.
RECURSIVE BitOp(_, _, _)
BitOp(op, x, y) ==
  IF x = 0 /\ y = 0 THEN 0
  ELSE LET bx == x % 2
           by == y % 2
           bit == IF op = "band" THEN (IF bx = 1 /\ by = 1 THEN 1 ELSE 0)
                  ELSE (IF bx = 1 \/ by = 1 THEN 1 ELSE 0)
       IN bit + 2 * BitOp(op, x \div 2, y \div 2)

\* SNAP_CAST_INT(a) op SNAP_CAST_INT(b) of BIT_BINOP(op)
BitResult(op, a, b) ==
  CASE op = "lshift" -> a * Pow2(b)
    [] op = "rshift" -> a \div Pow2(b)
    [] OTHER         -> BitOp(op, a, b)

\* The shift width of the drawn operands stays below this.
MaxShift == 4

\* BIT_BINOP(op): case Op::lshift, Op::rshift, Op::band, Op::bor
OpBitBinop(op) ==
  /\ Running /\ HasOperands(2)
  /\ LET b == m_stack[sp - 1]
         a == m_stack[sp - 2]
     IN IF SNAP_IS_NUM(a) /\ SNAP_IS_NUM(b)
        THEN /\ IsFinite(a) /\ IsFinite(b)
             /\ a.v >= 0 /\ b.v >= 0 /\ b.v < MaxShift
             /\ Plain([m_stack EXCEPT ![sp - 2] = Num(BitResult(op, a.v, b.v))],
                      sp - 1, 1)
        ELSE Fail(binop_error(OpStr(op), a, b), sp, 1)
  /\ Fetched(op, << >>)
  /\ SameGC /\ NoAlloc

\* Value::operator==: by content for numbers (NaN equals nothing), booleans
\* and nil, by identity for objects.
ValueEq(a, b) == a = b /\ ~(SNAP_IS_NUM(a) /\ a.v = NaN)

\* case Op::eq and case Op::neq
OpEq(op) ==
  /\ Running /\ HasOperands(2)
  /\ LET a == m_stack[sp - 1]
         b == m_stack[sp - 2]
         r == IF op = "eq" THEN ValueEq(a, b) ELSE ~ValueEq(a, b)
     IN Plain([m_stack EXCEPT ![sp - 2] = Bool(r)], sp - 1, 1)
  /\ Fetched(op, << >>)
  /\ SameGC /\ NoAlloc

\* case Op::negate: UNOP_ERROR reports the error and the switch breaks, so the
\* loop goes on to the next opcode.
OpNegate ==
  /\ Running /\ HasOperands(1)
  /\ LET operand == m_stack[sp - 1]
     IN IF SNAP_IS_NUM(operand)
        THEN /\ IsFinite(operand)
             /\ Plain([m_stack EXCEPT ![sp - 1] = Num(-operand.v)], sp, 1)
        ELSE /\ runtime_error("Cannot use operator '-' on type '"
                                \o TypeName(operand) \o "'.")
             /\ ip' = ip + 1
             /\ SameSites /\ SamePool
             /\ UNCHANGED << status, m_stack, sp, heap, m_frames, m_frame_count,
                             m_current_frame, m_current_block, m_open_upvals,
                             return_value >>
  /\ Fetched("negate", << >>)
  /\ SameGC /\ NoAlloc

\* A lnot that pops its operand and pushes nothing.
OpLnot_no_push ==
  /\ Running /\ HasOperands(1)
  /\ Plain(m_stack, sp - 1, 1)
  /\ Fetched("lnot", << >>)
  /\ SameGC /\ NoAlloc

\* case Op::lnot
OpLnot ==
  /\ Running /\ HasOperands(1)
  /\ Plain([m_stack EXCEPT ![sp - 1] = Bool(IS_VAL_FALSY(m_stack[sp - 1]))], sp, 1)
  /\ Fetched("lnot", << >>)
  /\ SameGC /\ NoAlloc

\* ------------------------------------------------------------ opcodes: jumps
\* case Op::jmp_if_true_or_pop
OpJmpIfTrueOrPop(offset) ==
  /\ Running /\ HasOperands(1)
  /\ IF IS_VAL_TRUTHY(m_stack[sp - 1])
     THEN Plain(m_stack, sp, 3 + offset)
     ELSE Plain(m_stack, sp - 1, 3)
  /\ Fetched("jmp_if_true_or_pop", << offset >>)
  /\ SameGC /\ NoAlloc

\* case Op::jmp_if_false_or_pop
OpJmpIfFalseOrPop(offset) ==
  /\ Running /\ HasOperands(1)
  /\ IF IS_VAL_FALSY(m_stack[sp - 1])
     THEN Plain(m_stack, sp, 3 + offset)
     ELSE Plain(m_stack, sp - 1, 3)
  /\ Fetched("jmp_if_false_or_pop", << offset >>)
  /\ SameGC /\ NoAlloc

\* case Op::jmp
OpJmp(offset) ==
  /\ Running
  /\ Plain(m_stack, sp, 3 + offset)
  /\ Fetched("jmp", << offset >>)
  /\ SameGC /\ NoAlloc

\* case Op::pop_jmp_if_false
OpPopJmpIfFalse(offset) ==
  /\ Running /\ HasOperands(1)
  /\ Plain(m_stack, sp - 1,
           IF IS_VAL_FALSY(m_stack[sp - 1]) THEN 3 + offset ELSE 3)
  /\ Fetched("pop_jmp_if_false", << offset >>)
  /\ SameGC /\ NoAlloc

\* --------------------------------------------------- opcodes: strings, tables
SNAP_IS_STRING(x) == SNAP_IS_OBJECT(x) /\ heap[x.v].tag = "string"
SNAP_IS_TABLE(x) == SNAP_IS_OBJECT(x) /\ heap[x.v].tag = "table"

\* An opcode that allocates or writes heap objects and does not fail.
Alloc(h, pool, stk, newsp, len) ==
  /\ heap' = h
  /\ interned_strings' = pool
  /\ m_stack' = stk
  /\ sp' = newsp
  /\ ip' = ip + len
  /\ NoError /\ SameSites
  /\ UNCHANGED << status, m_frames, m_frame_count, m_current_frame,
                  m_current_block, m_open_upvals, return_value >>

\* case Op::concat: the right operand is popped, the left slot gets the result.
OpConcat ==
  /\ Running /\ HasOperands(2)
  /\ LET a == m_stack[sp - 2]
         b == m_stack[sp - 1]
     IN IF ~(SNAP_IS_STRING(a) /\ SNAP_IS_STRING(b))
        THEN Fail(binop_error("..", a, b), sp - 1, 1)
        ELSE LET buf == heap[a.v].chars \o heap[b.v].chars
                 interned == find_string(heap, interned_strings, buf)
                 r == string(heap, interned_strings, buf)
             IN /\ Len(buf) <= MaxStrLen
                /\ IF interned = Null
                   THEN Alloc(r.heap, r.pool,
                              [m_stack EXCEPT ![sp - 2] = Object(r.str)], sp - 1, 1)
                   ELSE Alloc(heap, interned_strings,
                              [m_stack EXCEPT ![sp - 2] = Object(interned)], sp - 1, 1)
  /\ Fetched("concat", << >>)
  /\ SameGC
  /\ allocs' = IF Len(heap') > Len(heap)
               THEN << AllocSite("concat", {}, heap, m_stack, sp - 1, m_frames,
                                 m_frame_count, m_open_upvals, m_extra_roots) >>
               ELSE << >>

\* Table::get(key): the value stored under the key, nil when there is none.
TableGet(h, tbl, key) ==
  IF key \in DOMAIN h[tbl].entries THEN h[tbl].entries[key] ELSE Nil

\* Table::set(key, value): storing nil removes the key.
TableSet(h, tbl, key, value) ==
  LET e == h[tbl].entries
  IN [h EXCEPT ![tbl].entries =
        IF value = Nil
        THEN [k \in DOMAIN e \ {key} |-> e[k]]
        ELSE [k \in DOMAIN e \cup {key} |-> IF k = key THEN value ELSE e[k]]]

\* case Op::new_table
OpNewTable ==
  /\ Running /\ sp < StackMax
  /\ Alloc(Append(heap, [tag |-> "table", entries |-> << >>]), interned_strings,
           PushOn(m_stack, sp, Object(NewId(heap))), sp + 1, 1)
  /\ Fetched("new_table", << >>)
  /\ SameGC
  /\ allocs' = << AllocSite("new_table", {}, heap, m_stack, sp, m_frames,
                            m_frame_count, m_open_upvals, m_extra_roots) >>

\* case Op::table_add_field. The compiler emits it inside a table literal
\* only, with the table under the key and the value.
OpTableAddField ==
  /\ Running /\ HasOperands(3)
  /\ SNAP_IS_TABLE(m_stack[sp - 3])
  /\ LET value == m_stack[sp - 1]
         key   == m_stack[sp - 2]
     IN Alloc(TableSet(heap, m_stack[sp - 3].v, key, value), interned_strings,
              m_stack, sp - 2, 1)
  /\ Fetched("table_add_field", << >>)
  /\ SameGC /\ NoAlloc

IndexError(x) == "Attempt to index a " \o TypeName(x) \o " value."

\* An index_set that stores under a nil key.
OpIndexSet_nil_key_stored ==
  /\ Running /\ HasOperands(3)
  /\ SNAP_IS_TABLE(m_stack[sp - 3])
  /\ Alloc(TableSet(heap, m_stack[sp - 3].v, m_stack[sp - 2], m_stack[sp - 1]),
           interned_strings, [m_stack EXCEPT ![sp - 3] = m_stack[sp - 1]], sp - 2, 1)
  /\ Fetched("index_set", << >>)
  /\ SameGC /\ NoAlloc

\* case Op::index_set: table[key] = value
OpIndexSet ==
  /\ Running /\ HasOperands(3)
  /\ LET value  == m_stack[sp - 1]
         key    == m_stack[sp - 2]
         tvalue == m_stack[sp - 3]
     IN IF SNAP_IS_TABLE(tvalue)
        THEN IF SNAP_IS_NIL(key)
             THEN Fail("Table key cannot be nil.", sp - 2, 1)
             ELSE Alloc(TableSet(heap, tvalue.v, key, value), interned_strings,
                        [m_stack EXCEPT ![sp - 3] = value], sp - 2, 1)
        ELSE Fail(IndexError(tvalue), sp - 2, 1)
  /\ Fetched("index_set", << >>)
  /\ SameGC /\ NoAlloc

\* case Op::table_set: table.key = value
OpTableSet(key) ==
  /\ Running /\ HasOperands(2)
  /\ LET value  == m_stack[sp - 1]
         tvalue == m_stack[sp - 2]
     IN IF SNAP_IS_TABLE(tvalue)
        THEN Alloc(TableSet(heap, tvalue.v, key, value), interned_strings,
                   [m_stack EXCEPT ![sp - 2] = value], sp - 1, 2)
        ELSE Fail(IndexError(tvalue), sp - 1, 2)
  /\ Fetched("table_set", << key >>)
  /\ SameGC /\ NoAlloc

\* case Op::table_get: TOS = TOS.key
OpTableGet(key) ==
  /\ Running /\ HasOperands(1)
  /\ LET tvalue == m_stack[sp - 1]
     IN IF SNAP_IS_TABLE(tvalue)
        THEN Plain([m_stack EXCEPT ![sp - 1] = TableGet(heap, tvalue.v, key)], sp, 2)
        ELSE Fail(IndexError(tvalue), sp, 1)
  /\ Fetched("table_get", << key >>)
  /\ SameGC /\ NoAlloc

\* case Op::table_get_no_pop: push(TOS.key)
OpTableGetNoPop(key) ==
  /\ Running /\ HasOperands(1) /\ sp < StackMax
  /\ LET tvalue == m_stack[sp - 1]
     IN IF SNAP_IS_TABLE(tvalue)
        THEN Plain(PushOn(m_stack, sp, TableGet(heap, tvalue.v, key)), sp + 1, 2)
        ELSE Fail(IndexError(tvalue), sp, 1)
  /\ Fetched("table_get_no_pop", << key >>)
  /\ SameGC /\ NoAlloc

\* case Op::index: table[key]
OpIndex ==
  /\ Running /\ HasOperands(2)
  /\ LET key    == m_stack[sp - 1]
         tvalue == m_stack[sp - 2]
     IN IF SNAP_IS_TABLE(tvalue)
        THEN IF SNAP_IS_NIL(key)
             THEN Fail("Table key cannot be nil.", sp - 1, 1)
             ELSE Plain([m_stack EXCEPT ![sp - 2] = TableGet(heap, tvalue.v, key)],
                        sp - 1, 1)
        ELSE Fail(IndexError(tvalue), sp - 1, 1)
  /\ Fetched("index", << >>)
  /\ SameGC /\ NoAlloc

\* case Op::index_no_pop: push(table[key])
OpIndexNoPop ==
  /\ Running /\ HasOperands(2) /\ sp < StackMax
  /\ LET key    == m_stack[sp - 1]
         vtable == m_stack[sp - 2]
     IN IF SNAP_IS_TABLE(vtable)
        THEN IF SNAP_IS_NIL(key)
             THEN Fail("Table key cannot be nil.", sp, 1)
             ELSE Plain(PushOn(m_stack, sp, TableGet(heap, vtable.v, key)), sp + 1, 1)
        ELSE Fail(IndexError(vtable), sp, 1)
  /\ Fetched("index_no_pop", << >>)
  /\ SameGC /\ NoAlloc

\* default: an opcode the switch does not know
OpUnknown ==
  /\ Running
  /\ status' = "RuntimeError"
  /\ ip' = ip + 1
  /\ NoError /\ SameSites /\ SamePool
  /\ Fetched("unknown", << >>)
  /\ SameGC /\ NoAlloc
  /\ UNCHANGED << m_stack, sp, heap, m_frames, m_frame_count, m_current_frame,
                  m_current_block, m_open_upvals, return_value >>

\* --------------------------------------------------------- specifications
\* The call/closure fragment of the instruction set.
CallConsts == { Num(1), Num(2) }

\* The operand pairs of the closures made here: the first two locals of the
\* frame and the upvalues of the executing closure.
CallDescs == { d \in UpvalDescs : d.is_local => d.index \in {1, 2} }

InitCalls == InitVM(MaxSteps)

NextCalls ==
  \/ VMInit
  \/ \E k \in CallConsts : OpLoadConst(k)
  \/ OpPop
  \/ \E idx \in 1..StackMax : OpGetVar(idx)
  \/ OpCloseUpval
  \/ \E proto \in 2..NumProtos :
       \E descs \in [1..ProtoTable[proto].num_upvals -> CallDescs] :
         OpMakeFunc(proto, descs)
  \/ \E argc \in 0..MaxArgc : OpCallFunc(argc)
  \/ OpReturnVal

SpecCalls == InitCalls /\ [][NextCalls]_vars

\* Every opcode of the dispatch loop, over short code streams.
OpConsts == { Num(0), Num(2), Object(NumProtos + 1), Object(NumProtos + 2) }
KeyConsts == { Object(NumProtos + 1) }
JumpOffsets == { 2 }

InitOps == InitVM(MaxOps)

NextOps ==
  \/ VMInit
  \/ \E k \in OpConsts : OpLoadConst(k)
  \/ OpLoadNil
  \/ OpPop
  \/ \E op \in { "add", "sub", "mult" } : OpBinop(op)
  \/ \E op \in { "gt", "lt", "gte", "lte" } : OpCmp(op)
  \/ OpDiv
  \/ OpMod
  \/ \E op \in { "lshift", "rshift", "band", "bor" } : OpBitBinop(op)
  \/ \E op \in { "eq", "neq" } : OpEq(op)
  \/ OpNegate
  \/ OpLnot
  \/ \E offset \in JumpOffsets : OpJmpIfTrueOrPop(offset)
  \/ \E offset \in JumpOffsets : OpJmpIfFalseOrPop(offset)
  \/ \E offset \in JumpOffsets : OpJmp(offset)
  \/ \E offset \in JumpOffsets : OpPopJmpIfFalse(offset)
  \/ \E idx \in 1..StackMax : OpGetVar(idx)
  \/ \E idx \in 1..StackMax : OpSetVar(idx)
  \/ OpSetUpval(0)
  \/ OpGetUpval(0)
  \/ OpCloseUpval
  \/ OpConcat
  \/ OpNewTable
  \/ OpTableAddField
  \/ OpIndexSet
  \/ \E key \in KeyConsts : OpTableSet(key)
  \/ \E key \in KeyConsts : OpTableGet(key)
  \/ \E key \in KeyConsts : OpTableGetNoPop(key)
  \/ OpIndex
  \/ OpIndexNoPop
  \/ \E descs \in [1..1 -> UpvalDescs] : OpMakeFunc(2, descs)
  \/ OpCallFunc(0)
  \/ OpReturnVal
  \/ OpUnknown

Spec == InitOps /\ [][NextOps]_vars

\* VM::string called by the host while the program runs.
VMString(chars) ==
  /\ status = "Running" /\ fuel > 0
  /\ LET r == string(heap, interned_strings, chars)
     IN /\ heap' = r.heap
        /\ interned_strings' = r.pool
        /\ Fetched("string", << chars, r.str >>)
        /\ SameGC
        /\ allocs' = IF Len(r.heap) > Len(heap)
                     THEN << AllocSite("string", {}, heap, m_stack, sp, m_frames,
                                       m_frame_count, m_open_upvals, m_extra_roots) >>
                     ELSE << >>
  /\ NoError /\ SameSites
  /\ UNCHANGED << status, m_stack, sp, m_frames, m_frame_count, m_current_frame,
                  m_current_block, ip, m_open_upvals, return_value >>

\* Strings made by the compiler, by concat and by the host.
Bytes == { << "a" >>, << "b" >>, << "a", "b" >>, << "b", "a" >> }
StringConsts == { Object(NumProtos + i) : i \in 1..Len(StrConsts) }

InitStrings == InitVM(MaxStringSteps)

NextStrings ==
  \/ VMInit
  \/ \E chars \in Bytes : VMString(chars)
  \/ \E k \in StringConsts : OpLoadConst(k)
  \/ OpConcat
  \/ OpPop

SpecStrings == InitStrings /\ [][NextStrings]_vars

\* Calls of the host's native closure.
NativeConsts == { Num(1), Object(NativeFn) }

InitNative == InitVM(MaxSteps)

NextNative ==
  \/ VMInit
  \/ \E k \in NativeConsts : OpLoadConst(k)
  \/ OpPop
  \/ \E argc \in 0..MaxArgc : OpCallFunc(argc)
  \/ OpReturnVal

SpecNative == InitNative /\ [][NextNative]_vars

\* A collect_garbage that also drops the unmarked strings from the intern table.
collect_garbage_drops_strings ==
  /\ status = "Running" /\ fuel > 0
  /\ LET g == mark([marked |-> marked, gray |-> m_gray_objects], heap, sp, m_frames,
                   m_current_frame, m_open_upvals, m_extra_roots)
     IN /\ marked' = g.marked
        /\ m_gray_objects' = g.gray
        /\ interned_strings' = interned_strings \cap g.marked
  /\ Fetched("collect_garbage", << >>)
  /\ NoAlloc /\ NoError /\ SameSites
  /\ UNCHANGED << status, heap, m_stack, sp, m_frames, m_frame_count,
                  m_current_frame, m_current_block, ip, m_open_upvals,
                  return_value, m_extra_roots >>

\* VM::collect_garbage: mark() and nothing else; trace() and sweep() are not
\* called. It runs when a make<T> of the running code starts a collection.
collect_garbage ==
  /\ status = "Running" /\ fuel > 0
  /\ LET g == mark([marked |-> marked, gray |-> m_gray_objects], heap, sp, m_frames,
                   m_current_frame, m_open_upvals, m_extra_roots)
     IN /\ marked' = g.marked
        /\ m_gray_objects' = g.gray
  /\ Fetched("collect_garbage", << >>)
  /\ NoAlloc /\ NoError /\ SameSites /\ SamePool
  /\ UNCHANGED << status, heap, m_stack, sp, m_frames, m_frame_count,
                  m_current_frame, m_current_block, ip, m_open_upvals,
                  return_value, m_extra_roots >>

\* The all-objects list: make<T> links every object it makes and nothing
\* unlinks one.
m_objects == 1..Len(heap)

\* Programs that allocate, drop what they allocated and collect.
GCConsts == { Num(1), Object(NumProtos + 1) }

InitGC == InitVM(MaxGCSteps)

NextGC ==
  \/ \E collect \in BOOLEAN : VMInitWith(collect)
  \/ collect_garbage
  \/ \E k \in GCConsts : OpLoadConst(k)
  \/ OpNewTable
  \/ OpPop
  \/ OpConcat
  \/ \E descs \in [1..1 -> UpvalDescs] : OpMakeFunc(2, descs)
  \/ OpCallFunc(0)
  \/ OpReturnVal

SpecGC == InitGC /\ [][NextGC]_vars

\* Closures of one prototype with one upvalue, called without arguments: the
\* runs that capture a slot, close the upvalue and use it afterwards.
InitUpval == InitVM(MaxUpvalSteps)

NextUpval ==
  \/ VMInit
  \/ OpLoadConst(Num(1))
  \/ \E idx \in 1..2 : OpSetVar(idx)
  \/ OpGetUpval(0)
  \/ OpSetUpval(0)
  \/ OpCloseUpval
  \/ \E descs \in [1..1 -> CallDescs] : OpMakeFunc(2, descs)
  \/ OpCallFunc(0)
  \/ OpReturnVal

SpecUpval == InitUpval /\ [][NextUpval]_vars

\* VM::gc_protect(o) called by the host while the program runs.
VMGcProtect(o) ==
  /\ status = "Running" /\ fuel > 0
  /\ o \in m_objects
  /\ m_extra_roots' = gc_protect(m_extra_roots, o)
  /\ Fetched("gc_protect", << o >>)
  /\ NoAlloc /\ NoError /\ SameSites /\ SamePool
  /\ UNCHANGED << status, heap, m_stack, sp, m_frames, m_frame_count,
                  m_current_frame, m_current_block, ip, m_open_upvals,
                  return_value, marked, m_gray_objects >>

\* VM::gc_unprotect(o) called by the host while the program runs.
VMGcUnprotect(o) ==
  /\ status = "Running" /\ fuel > 0
  /\ o \in m_objects
  /\ m_extra_roots' = gc_unprotect(m_extra_roots, o)
  /\ Fetched("gc_unprotect", << o >>)
  /\ NoAlloc /\ NoError /\ SameSites /\ SamePool
  /\ UNCHANGED << status, heap, m_stack, sp, m_frames, m_frame_count,
                  m_current_frame, m_current_block, ip, m_open_upvals,
                  return_value, marked, m_gray_objects >>

\* The host protects and unprotects the compiled prototypes, in any order and
\* any number of times.
InitRoots == InitVM(MaxRootSteps)

NextRoots ==
  \/ VMInit
  \/ \E o \in 1..NumProtos : VMGcProtect(o)
  \/ \E o \in 1..NumProtos : VMGcUnprotect(o)

SpecRoots == InitRoots /\ [][NextRoots]_vars


\* ------------------------------------------------------------------ claims
\* What the opcode executed last started from.
PrevBase == prev.s.m_frames[prev.s.m_current_frame].base
PrevFunc == prev.s.m_frames[prev.s.m_current_frame].func
PrevTop  == prev.s.m_stack[prev.s.sp - 1]

Range(f) == { f[i] : i \in DOMAIN f }
Upvalues(h) == { u \in 1..Len(h) : h[u].tag = "upvalue" }
OpenUpvalues(h) == { u \in Upvalues(h) : h[u].m_value # Closed }
PrevChain == ChainFrom(prev.s.heap, prev.s.m_open_upvals)

\* The threshold the last opcode passed to close_upvalues_upto.
CloseThreshold ==
  IF prev.op = "close_upval" THEN prev.s.sp - 1 ELSE PrevBase

\* C1: after close_upvalues_upto(threshold) every upvalue that was open on a
\* slot at or above threshold is closed: its cell holds the value the slot had,
\* its pointer targets the cell, and it has left the open chain.
C1_CloseUptoClosesEverySlotAtOrAbove ==
  prev.op \in {"close_upval", "return_val"} =>
    \A u \in Range(PrevChain) :
      prev.s.heap[u].m_value >= CloseThreshold =>
        /\ heap[u].m_value = Closed
        /\ heap[u].closed = prev.s.m_stack[prev.s.heap[u].m_value]
        /\ u \notin Range(OpenChain)

\* C2: after return_val no upvalue of the open chain references a slot at or
\* above the base of the frame that returned.
C2_NoOpenUpvalueAtOrAboveReturnedBase ==
  prev.op = "return_val" =>
    \A u \in Range(OpenChain) : heap[u].m_value < PrevBase

\* The upvalue operand idx of the last opcode denotes, and the slot it was on.
PrevUpval == prev.s.heap[PrevFunc].upvals[prev.args[1] + 1]
PrevSlot  == prev.s.heap[PrevUpval].m_value

\* C3: an open upvalue and its slot hold one value: get_upval reads the slot,
\* set_upval writes it, and set_var on the slot is seen through the upvalue;
\* a closed upvalue is cut off from the stack: no opcode but a set_upval
\* through it changes its cell, and a set_upval through it leaves the stack alone.
C3_UpvalueCoherence ==
  /\ prev.op = "get_upval" =>
       m_stack[prev.s.sp] =
         IF PrevSlot # Closed THEN prev.s.m_stack[PrevSlot]
                              ELSE prev.s.heap[PrevUpval].closed
  /\ prev.op = "set_upval" =>
       IF PrevSlot # Closed
       THEN /\ m_stack[PrevSlot] = PrevTop
            /\ heap[PrevUpval].m_value = PrevSlot
            /\ \A i \in DOMAIN m_stack : i # PrevSlot => m_stack[i] = prev.s.m_stack[i]
       ELSE /\ m_stack = prev.s.m_stack
            /\ heap[PrevUpval].closed = PrevTop
            /\ heap[PrevUpval].m_value = Closed
  /\ prev.op = "set_var" =>
       \A u \in OpenUpvalues(prev.s.heap) :
         prev.s.heap[u].m_value = PrevBase + prev.args[1] =>
           /\ heap[u].m_value = PrevBase + prev.args[1]
           /\ m_stack[heap[u].m_value] = PrevTop
  /\ prev.op \notin {"none", "init"} =>
       \A u \in Upvalues(prev.s.heap) :
         (prev.s.heap[u].m_value = Closed
            /\ ~(prev.op = "set_upval" /\ PrevUpval = u)) =>
           /\ heap[u].m_value = Closed
           /\ heap[u].closed = prev.s.heap[u].closed

\* A set_upval through a closed upvalue, of a value its cell did not hold.
C3_Witness ==
  /\ prev.op = "set_upval"
  /\ PrevSlot = Closed
  /\ prev.s.heap[PrevUpval].closed # PrevTop

\* C4: at most one open upvalue exists per stack slot; make_func gives every
\* is_local operand the open upvalue of its slot, reusing the one that was
\* open before and allocating one object per slot that had none.
C4_OneOpenUpvaluePerSlot ==
  /\ \A u1, u2 \in OpenUpvalues(heap) :
       heap[u1].m_value = heap[u2].m_value => u1 = u2
  /\ prev.op = "make_func" =>
       LET descs  == prev.args[2]
           func   == Len(prev.s.heap) + 1
           slots  == { PrevBase + descs[i].index :
                         i \in { j \in DOMAIN descs : descs[j].is_local } }
           had    == { prev.s.heap[u].m_value : u \in OpenUpvalues(prev.s.heap) }
       IN /\ \A i \in DOMAIN descs :
               descs[i].is_local =>
                 LET uv == heap[func].upvals[i]
                 IN /\ heap[uv].tag = "upvalue"
                    /\ heap[uv].m_value = PrevBase + descs[i].index
                    /\ \A u \in OpenUpvalues(prev.s.heap) :
                         prev.s.heap[u].m_value = PrevBase + descs[i].index => uv = u
          /\ Len(heap) = Len(prev.s.heap) + 1 + Cardinality(slots \ had)

\* Two closures share the upvalue of a local that was captured before.
C4_Witness ==
  /\ prev.op = "make_func"
  /\ \E i \in DOMAIN prev.args[2] :
       /\ prev.args[2][i].is_local
       /\ heap[Len(prev.s.heap) + 1].upvals[i] <= Len(prev.s.heap)
       /\ \E f \in 1..Len(prev.s.heap) :
            /\ prev.s.heap[f].tag = "func"
            /\ heap[Len(prev.s.heap) + 1].upvals[i] \in Range(prev.s.heap[f].upvals)

\* C5: return_val in a frame that is not the last one leaves sp = base + 1 with
\* the returned value in the slot of the callee, one frame less, and resumes
\* the caller's block right after the operand of the call_func that made the
\* frame.
C5_FrameRestoration ==
  (prev.op = "return_val" /\ prev.s.m_frame_count > 1) =>
    /\ sp = PrevBase + 1
    /\ m_stack[PrevBase] = PrevTop
    /\ m_frame_count = prev.s.m_frame_count - 1
    /\ m_current_frame = m_frame_count - 1
    /\ m_current_block = heap[m_frames[m_current_frame].func].m_proto
    /\ ip = prev.s.call_sites[Len(prev.s.call_sites)] + 2
    /\ status = "Running"

C5_Witness ==
  /\ prev.op = "return_val" /\ prev.s.m_frame_count > 1
  /\ prev.s.sp > PrevBase + 2
  /\ m_stack[PrevBase] # prev.s.m_stack[PrevBase]
  /\ ip > 2

\* C6: a call of a closure with `want` parameters and any argc makes a new top
\* frame (func = the closure, ip = 0, base = sp - want - 1), with the closure at
\* base, then exactly want argument slots: the first min(argc, want) passed
\* arguments in order, then nils.
C6_CallFrame ==
  (prev.op = "call_func" /\ prev.s.status = "Running"
     /\ prev.s.m_stack[prev.s.sp - prev.args[1] - 1].t = "obj"
     /\ prev.s.heap[prev.s.m_stack[prev.s.sp - prev.args[1] - 1].v].tag = "func") =>
    LET argc   == prev.args[1]
        at     == prev.s.sp - argc - 1
        callee == prev.s.m_stack[at].v
        want   == ProtoTable[heap[callee].m_proto].num_params
        top    == m_frames[m_frame_count - 1]
    IN /\ m_frame_count = prev.s.m_frame_count + 1
       /\ m_current_frame = m_frame_count - 1
       /\ top.func = callee
       /\ ip = 0
       /\ top.base = sp - want - 1
       /\ top.base = at
       /\ m_stack[top.base] = Object(callee)
       /\ \A i \in 1..want :
            m_stack[top.base + i] =
              IF i <= argc THEN prev.s.m_stack[at + i] ELSE Nil
       /\ \A i \in 0..at : m_stack[i] = prev.s.m_stack[i]

\* A call that pads a missing argument with nil over a slot that held a number.
C6_Witness ==
  /\ prev.op = "call_func" /\ prev.args[1] = 1
  /\ m_frame_count = prev.s.m_frame_count + 1
  /\ ProtoTable[m_current_block].num_params = 2
  /\ sp = prev.s.sp + 1
  /\ m_stack[sp - 2].t = "num"
  /\ m_stack[sp - 1] = Nil

\* The operands of the binary opcode executed last.
PrevLeft  == prev.s.m_stack[prev.s.sp - 2]
PrevRight == prev.s.m_stack[prev.s.sp - 1]

\* C7: div on two numbers raises the runtime error 'divide by 0' exactly when
\* the divisor (top of stack) is 0, and otherwise replaces the two operands
\* with dividend / divisor.
C7_DivErrorIffDivisorZero ==
  (prev.op = "div" /\ SNAP_IS_NUM(PrevLeft) /\ SNAP_IS_NUM(PrevRight)) =>
    IF PrevRight.v = 0
    THEN /\ status = "RuntimeError"
         /\ errors = prev.s.errors + 1
         /\ error_msg = "Attempt to divide by 0.\n"
    ELSE /\ status = "Running"
         /\ errors = prev.s.errors
         /\ sp = prev.s.sp - 1
         /\ m_stack[sp - 1] = Num(Quotient(PrevLeft.v, PrevRight.v))

\* C8: the dispatch loop does not recover from a runtime error: an opcode
\* that detects one invokes the error callback exactly once, the run ends
\* with RuntimeError, and no opcode executes after the failing one.
C8_NoRecoveryAfterRuntimeError ==
  prev.op \notin {"none", "init"} =>
    /\ prev.s.errors = 0
    /\ errors > 0 => (errors = 1 /\ status = "RuntimeError")
    /\ status = "RuntimeError" => errors = 1

\* C9: a call_func at the maximum depth raises a runtime error, and the frame
\* count never exceeds the size of the frame array.
C9_FrameCountBounded ==
  /\ m_frame_count <= MaxFrames
  /\ (prev.op = "call_func" /\ prev.s.m_frame_count >= MaxFrames) =>
       status = "RuntimeError"

\* The opcodes of the delta table.
DeltaOps ==
  { "load_const", "load_nil", "get_var", "get_upval", "new_table", "make_func",
    "table_get_no_pop", "index_no_pop", "negate", "lnot", "set_var", "set_upval",
    "jmp", "table_get", "pop", "close_upval", "add", "sub", "mult", "div", "mod",
    "lshift", "rshift", "band", "bor", "gt", "lt", "gte", "lte", "eq", "neq",
    "concat", "pop_jmp_if_false", "table_set", "index", "table_add_field",
    "index_set", "jmp_if_true_or_pop", "jmp_if_false_or_pop" }

\* The last opcode took its jump.
Jumped == ip = prev.s.ip + 3 + prev.args[1]

\* The delta of the opcode executed last.
Delta ==
  CASE prev.op \in { "load_const", "load_nil", "get_var", "get_upval", "new_table",
                     "make_func", "table_get_no_pop", "index_no_pop" } -> 1
    [] prev.op \in { "negate", "lnot", "set_var", "set_upval", "jmp",
                     "table_get" } -> 0
    [] prev.op \in { "table_add_field", "index_set" } -> -2
    [] prev.op \in { "jmp_if_true_or_pop", "jmp_if_false_or_pop" } ->
         IF Jumped THEN 0 ELSE -1
    [] OTHER -> -1

\* How many stack slots the opcode executed last takes as operands.
Operands ==
  CASE prev.op \in { "load_const", "load_nil", "get_var", "get_upval", "new_table",
                     "make_func", "jmp" } -> 0
    [] prev.op \in { "negate", "lnot", "set_var", "set_upval", "table_get",
                     "table_get_no_pop", "pop", "close_upval", "pop_jmp_if_false",
                     "jmp_if_true_or_pop", "jmp_if_false_or_pop" } -> 1
    [] prev.op \in { "index_set" } -> 3
    [] OTHER -> 2

\* The opcode executed last is of the delta table and completed without error.
CompletedNormally ==
  /\ prev.op \in DeltaOps
  /\ status = "Running"
  /\ errors = prev.s.errors

\* The slots below the operands of the last opcode.
BelowOperands == 0..(prev.s.sp - Operands - 1)

\* The slot below the operands that the last opcode is meant to write: the
\* local of set_var, the captured slot of a set_upval through an open upvalue.
TargetSlots ==
  CASE prev.op = "set_var" -> { PrevBase + prev.args[1] }
    [] prev.op = "set_upval" -> IF PrevSlot = Closed THEN {} ELSE { PrevSlot }
    [] OTHER -> {}

\* C10 as stated: after an opcode of the delta table completes without error
\* the change of sp is the delta of the table and every slot below the
\* operands is unchanged.
C10_StackDisciplineAsStated ==
  CompletedNormally =>
    /\ sp - prev.s.sp = Delta
    /\ \A i \in BelowOperands : m_stack[i] = prev.s.m_stack[i]

\* C10: after an opcode of the delta table completes without error the change
\* of sp is the delta of the table, the or_pop jumps jump exactly when they
\* keep the operand, and every slot below the operands is unchanged except
\* the local slot set_var writes and the captured slot set_upval writes.
C10_StackDiscipline ==
  CompletedNormally =>
    /\ sp - prev.s.sp = Delta
    /\ prev.op = "jmp_if_true_or_pop" => (Jumped <=> IS_VAL_TRUTHY(PrevTop))
    /\ prev.op = "jmp_if_false_or_pop" => (Jumped <=> IS_VAL_FALSY(PrevTop))
    /\ \A i \in BelowOperands \ TargetSlots : m_stack[i] = prev.s.m_stack[i]

\* set_var stored the top of the stack in a local below it that held
\* something else.
C10_Witness ==
  /\ CompletedNormally
  /\ prev.op = "set_var"
  /\ PrevBase + prev.args[1] < prev.s.sp - 1
  /\ m_stack[PrevBase + prev.args[1]] = PrevTop
  /\ prev.s.m_stack[PrevBase + prev.args[1]] # PrevTop
  /\ sp = prev.s.sp

\* The indexed value and the key of the indexing opcode executed last.
PrevIndexed ==
  CASE prev.op = "index_set" -> prev.s.m_stack[prev.s.sp - 3]
    [] prev.op \in { "index", "index_no_pop", "table_set" } ->
         prev.s.m_stack[prev.s.sp - 2]
    [] OTHER -> prev.s.m_stack[prev.s.sp - 1]

PrevKey ==
  IF prev.op = "index_set" THEN prev.s.m_stack[prev.s.sp - 2]
  ELSE prev.s.m_stack[prev.s.sp - 1]

PrevIsTable ==
  SNAP_IS_OBJECT(PrevIndexed) /\ prev.s.heap[PrevIndexed.v].tag = "table"

\* The run ended with one runtime error carrying the message.
RaisedError(message) ==
  /\ status = "RuntimeError"
  /\ errors = prev.s.errors + 1
  /\ error_msg = message

\* C17: index, index_set and index_no_pop on a table with a nil key raise
\* 'Table key cannot be nil', end the run with RuntimeError and leave the
\* table as it was; these opcodes and table_get, table_get_no_pop and
\* table_set on a value that is no table raise 'Attempt to index a <type> value'.
C17_IndexErrors ==
  /\ (prev.op \in { "index", "index_set", "index_no_pop" }
        /\ PrevIsTable /\ SNAP_IS_NIL(PrevKey)) =>
       /\ RaisedError("Table key cannot be nil.")
       /\ heap = prev.s.heap
  /\ (prev.op \in { "index", "index_set", "index_no_pop", "table_get",
                    "table_get_no_pop", "table_set" } /\ ~PrevIsTable) =>
       /\ RaisedError(IndexError(PrevIndexed))
       /\ heap = prev.s.heap

\* index_set with a nil key on a table has failed.
C17_Witness ==
  /\ prev.op = "index_set"
  /\ PrevIsTable
  /\ SNAP_IS_NIL(PrevKey)
  /\ ~SNAP_IS_NIL(PrevTop)
  /\ status = "RuntimeError"
  /\ error_msg = "Table key cannot be nil."

\* The callee of the call_func executed last.
PrevCallee == prev.s.m_stack[prev.s.sp - prev.args[1] - 1]

\* The tag of the object a value refers to, or the tag of the value.
PrevKind(x) == IF x.t = "obj" THEN prev.s.heap[x.v].tag ELSE x.t

\* C18: call_func on a callee that is no callable object raises 'Attempt to
\* call a <type> value.', makes no frame, leaves the frame count as it was
\* and ends the run with RuntimeError.
C18_CallNonCallable ==
  (prev.op = "call_func" /\ PrevKind(PrevCallee) \notin { "func", "c_closure" }) =>
    /\ RaisedError("Attempt to call a " \o PrevKind(PrevCallee) \o " value.")
    /\ m_frame_count = prev.s.m_frame_count
    /\ m_frames = prev.s.m_frames
    /\ m_current_frame = prev.s.m_current_frame
    /\ sp = prev.s.sp

\* call_func on a table has failed.
C18_Witness ==
  /\ prev.op = "call_func"
  /\ PrevKind(PrevCallee) = "table"
  /\ status = "RuntimeError"
  /\ m_frame_count = prev.s.m_frame_count

\* C20: the run ends with Success only through a return_val that pops the
\* last frame, and return_value is then the value that return_val popped.
C20_SuccessOnlyByLastReturn ==
  /\ status = "Success" =>
       /\ prev.op = "return_val"
       /\ prev.s.m_frame_count = 1
       /\ m_frame_count = 0
       /\ return_value = PrevTop
  /\ (prev.op = "return_val" /\ prev.s.m_frame_count = 1) => status = "Success"
  /\ status # "Success" => return_value = Nil

\* The top-level closure returned a number it had computed.
C20_Witness ==
  /\ status = "Success"
  /\ prev.op = "return_val"
  /\ SNAP_IS_NUM(return_value)
  /\ prev.s.sp > 2

Strings(h) == { o \in 1..Len(h) : h[o].tag = "string" }

\* The bytes concat joined, when both operands were strings.
PrevConcatBytes ==
  prev.s.heap[PrevLeft.v].chars \o prev.s.heap[PrevRight.v].chars

C19_NativeCall ==
  (prev.op = "call_func" /\ PrevKind(PrevCallee) = "c_closure") =>
    /\ status = "Running"
    /\ errors = prev.s.errors
    /\ m_frame_count = prev.s.m_frame_count
    /\ m_current_frame = prev.s.m_current_frame
    /\ sp = prev.s.sp - prev.args[1]

\* A collection cycle was the last step.
Collected == prev.op = "collect_garbage" \/ (prev.op = "init" /\ prev.args[1])

\* The objects the stack refers to below sp.
StackObjects == UNION { ValueRefs(m_stack[i]) : i \in 0..(sp - 1) }

\* The roots section 4.7 names: the stack, the closures of the active frames,
\* the open-upvalue chain, the intern pool, the globals and the extra roots.
Roots ==
  RootSet(heap, m_stack, sp, m_frames, m_frame_count, m_open_upvals, m_extra_roots)
    \cup interned_strings \cup { NativeFn }

\* The objects reachable from the roots.
Live == Reach(heap, m_stack, {}, Roots)

\* C12: after collect_garbage the all-objects list holds exactly the objects
\* reachable from the roots: none of them is gone, and every other object
\* has been unlinked.
C12_GCSoundness ==
  prev.op = "collect_garbage" => m_objects = Live

\* C13: after a collection cycle every object of the all-objects list has
\* marked = false.
C13_MarksClearedAfterCycle ==
  Collected => \A o \in m_objects : o \notin marked

\* C14: after VM::mark() every object a stack value below sp refers to, every
\* upvalue of the open chain and every extra root is marked, and is on the
\* gray worklist unless it was marked before.
C14_RootEnumeration ==
  prev.op = "collect_garbage" =>
    \A o \in StackObjects \cup Range(OpenChain) \cup m_extra_roots :
      /\ o \in marked
      /\ o \notin prev.s.marked => o \in Range(m_gray_objects)

\* C15: after VM::mark() the closure of every active call frame, the
\* executing one included, is marked.
C15_FrameClosuresMarked ==
  prev.op = "collect_garbage" =>
    \A i \in 0..(m_frame_count - 1) : m_frames[i].func \in marked

\* C16: at every make<T> of the last step, every object the caller goes on to
\* use is reachable from the stack, a call frame, the open-upvalue chain or
\* the extra roots; the top-level prototype is an extra root while the
\* top-level closure is made, and the closure of make_func is on the stack
\* while its upvalues are captured.
C16_AllocationsRooted ==
  \A i \in DOMAIN allocs :
    /\ allocs[i].held \subseteq allocs[i].rooted
    /\ allocs[i].site = "init" => allocs[i].held \subseteq allocs[i].extra
    /\ allocs[i].site = "capture_upvalue" =>
         /\ m_stack[sp - 1].v \in allocs[i].held
         /\ m_stack[sp - 1].v \in allocs[i].on_stack

\* make_func made a closure and a new upvalue for it.
C16_Witness ==
  /\ prev.op = "make_func"
  /\ Len(allocs) = 2
  /\ allocs[2].site = "capture_upvalue"
  /\ heap[m_stack[sp - 1].v].upvals[1] = Len(heap)

\* C21: the open chain is strictly ascending by slot from the head, and every
\* upvalue in it is open: its pointer targets a stack slot, not its own cell.
C21_OpenChainAscending ==
  /\ \A i \in DOMAIN OpenChain :
       /\ heap[OpenChain[i]].tag = "upvalue"
       /\ heap[OpenChain[i]].m_value # Closed
  /\ \A i \in 1..(Len(OpenChain) - 1) :
       heap[OpenChain[i]].m_value < heap[OpenChain[i + 1]].m_value

\* make_func linked a new upvalue behind the head of the chain.
C21_Witness ==
  /\ prev.op = "make_func"
  /\ Len(OpenChain) >= 2
  /\ \E i \in 2..Len(OpenChain) : OpenChain[i] > Len(prev.s.heap)

\* C22: an upvalue that is closed stays closed and outside the open chain, and
\* a capture made afterwards never hands out an upvalue that was closed.
C22_ClosedOnce ==
  /\ \A u \in Upvalues(heap) :
       heap[u].m_value = Closed => u \notin Range(OpenChain)
  /\ prev.op \notin {"none", "init"} =>
       \A u \in Upvalues(prev.s.heap) :
         prev.s.heap[u].m_value = Closed =>
           /\ heap[u].m_value = Closed
           /\ u \notin Range(OpenChain)
           /\ prev.op = "make_func" =>
                \A i \in DOMAIN prev.args[2] :
                  prev.args[2][i].is_local =>
                    heap[Len(prev.s.heap) + 1].upvals[i] # u

\* A local is captured while an upvalue closed earlier exists: the capture
\* allocates a new upvalue, open on the slot.
C22_Witness ==
  /\ prev.op = "make_func"
  /\ \E u \in Upvalues(prev.s.heap) : prev.s.heap[u].m_value = Closed
  /\ \E i \in DOMAIN prev.args[2] :
       /\ prev.args[2][i].is_local
       /\ heap[Len(prev.s.heap) + 1].upvals[i] > Len(prev.s.heap)
       /\ heap[heap[Len(prev.s.heap) + 1].upvals[i]].m_value # Closed

\* C23: the gray worklist is empty between collection cycles: after
\* collect_garbage has returned, m_gray_objects holds no object.
C23_GrayEmptyBetweenCycles ==
  Collected => m_gray_objects = << >>

C24_CalleeSlot ==
  prev.op = "call_func" =>
    IF PrevKind(PrevCallee) = "func"
    THEN /\ m_frame_count = prev.s.m_frame_count + 1
         /\ m_frames[m_current_frame].func = PrevCallee.v
         /\ errors = prev.s.errors
    ELSE RaisedError("Attempt to call a " \o PrevKind(PrevCallee) \o " value.")

\* A closure was called with arguments, none of them the closure.
C24_Witness ==
  /\ prev.op = "call_func"
  /\ prev.args[1] >= 1
  /\ PrevKind(PrevCallee) = "func"
  /\ m_frames[m_current_frame].func = PrevCallee.v
  /\ \A i \in 1..prev.args[1] : prev.s.m_stack[prev.s.sp - i] # PrevCallee

\* The value the last opcode tested is nil or false.
PrevFalsy == PrevTop = Nil \/ PrevTop = Bool(FALSE)

\* The address of the byte after the 2-byte operand of the last opcode.
AfterOperand == prev.s.ip + 3

\* C25: jmp_if_true_or_pop jumps and keeps TOS iff TOS is truthy, and pops
\* otherwise; jmp_if_false_or_pop jumps and keeps TOS iff TOS is falsy, and
\* pops otherwise; pop_jmp_if_false always pops and jumps iff the value is
\* falsy. Falsy is nil or false. A jump leaves ip at the byte after the
\* operand plus the offset, no jump leaves it at the byte after the operand.
C25_ConditionalJumps ==
  /\ prev.op \in { "jmp_if_true_or_pop", "jmp_if_false_or_pop" } =>
       IF PrevFalsy = (prev.op = "jmp_if_false_or_pop")
       THEN /\ ip = AfterOperand + prev.args[1]
            /\ sp = prev.s.sp
            /\ m_stack[sp - 1] = PrevTop
       ELSE /\ ip = AfterOperand
            /\ sp = prev.s.sp - 1
  /\ prev.op = "pop_jmp_if_false" =>
       /\ sp = prev.s.sp - 1
       /\ ip = IF PrevFalsy THEN AfterOperand + prev.args[1] ELSE AfterOperand
  /\ prev.op \in { "jmp_if_true_or_pop", "jmp_if_false_or_pop", "pop_jmp_if_false" } =>
       /\ status = prev.s.status
       /\ errors = prev.s.errors
       /\ \A i \in 0..(sp - 1) : m_stack[i] = prev.s.m_stack[i]

\* The number 0 on top of the stack was taken for true.
C25_Witness ==
  /\ prev.op \in { "jmp_if_true_or_pop", "jmp_if_false_or_pop", "pop_jmp_if_false" }
  /\ PrevTop = Num(0)
  /\ (ip = AfterOperand + prev.args[1]) = (prev.op = "jmp_if_true_or_pop")
  /\ prev.args[1] > 0

\* C26: while the run goes on, the current frame is the top of the frame
\* stack, at least one frame is active, and the current block is the block of
\* the current frame's closure; init leaves one frame, whose base is stack
\* slot 0 holding the top-level closure, and ip = 0.
C26_CurrentFrameIsTop ==
  /\ status = "Running" =>
       /\ m_frame_count >= 1
       /\ m_current_frame = m_frame_count - 1
       /\ heap[m_frames[m_current_frame].func].tag = "func"
       /\ m_current_block = heap[m_frames[m_current_frame].func].m_proto
  /\ prev.op = "init" =>
       /\ status = "Running"
       /\ m_frame_count = 1
       /\ m_frames[0].base = 0
       /\ m_stack[0] = Object(m_frames[0].func)
       /\ heap[m_frames[0].func].m_proto = 1
       /\ sp = 1
       /\ ip = 0

\* A return to a caller whose block is not the block of the callee.
C26_Witness ==
  /\ prev.op = "return_val"
  /\ status = "Running"
  /\ m_frame_count = prev.s.m_frame_count - 1
  /\ m_current_block # prev.s.m_current_block

\* C28: the extra roots are a set. gc_protect of a protected object changes
\* nothing and gc_protect of another one adds just it; one gc_unprotect
\* removes the object, however often it was protected, and nothing else; the
\* protect/unprotect pair of init leaves the extra roots as they were.
C28_ExtraRootsAreASet ==
  /\ prev.op = "gc_protect" =>
       /\ prev.args[1] \in m_extra_roots
       /\ m_extra_roots \ { prev.args[1] } = prev.s.m_extra_roots \ { prev.args[1] }
       /\ prev.args[1] \in prev.s.m_extra_roots => m_extra_roots = prev.s.m_extra_roots
  /\ prev.op = "gc_unprotect" =>
       /\ prev.args[1] \notin m_extra_roots
       /\ m_extra_roots = prev.s.m_extra_roots \ { prev.args[1] }
  /\ prev.op = "init" =>
       /\ 1 \notin prev.s.m_extra_roots
       /\ m_extra_roots = prev.s.m_extra_roots

\* An object was protected while it was protected already, next to another.
C28_Witness ==
  /\ prev.op = "gc_protect"
  /\ prev.args[1] \in prev.s.m_extra_roots
  /\ Cardinality(m_extra_roots) >= 2

=============================================================================
